---- MODULE Spec2Model ----
(***************************************************************************)
(* A model of app.py: the chunked Whisper transcription run                *)
(* (transcribe_audio / process_audio_chunk), the caller in show_main_page  *)
(* that stores its result in st.session_state, the WebVTT cue text         *)
(* extraction (read_vtt_file and the pasted-text path of show_main_page),  *)
(* the minutes section of show_main_page and the prompt, key and model     *)
(* settings of show_settings_page.                                         *)
(*                                                                         *)
(* Text is a sequence of one-character strings, so that strip(), join,     *)
(* split, startswith and the tag regular expression are computed.          *)
(***************************************************************************)
EXTENDS Integers, Sequences, FiniteSets, TLC

(***************************************************************************)
(* Bounds of the model.                                                    *)
(***************************************************************************)
\* Audio lengths are taken around multiples of half a window, up to this
\* many half windows (5 half windows = 25 s).
MaxHalfWindows == 5

\* Cue sheets of the line pool have up to this many lines.
MaxDocLines == 4

(***************************************************************************)
(* Program constants.                                                      *)
(***************************************************************************)
chunk_size_sec == 10
MaxFileSizeMB == 200
BytesPerMB == 1024 * 1024

(***************************************************************************)
(* Text helpers (Python str semantics).                                    *)
(***************************************************************************)
\* A character that a TLA+ string cannot hold is written as the name of
\* its code point: "U+3000" is one character, the ideographic space.

\* The characters str.strip() removes: those for which str.isspace() holds.
Whitespace ==
  {" "} \cup
  {"\t", "\n", "U+000B", "\f", "\r", "U+001C", "U+001D", "U+001E", "U+001F",
   "U+0085", "U+00A0", "U+1680", "U+2000", "U+2001", "U+2002", "U+2003",
   "U+2004", "U+2005", "U+2006", "U+2007", "U+2008", "U+2009", "U+200A",
   "U+2028", "U+2029", "U+202F", "U+205F", "U+3000"}

RECURSIVE LStrip(_)
LStrip(s) ==
  IF s = <<>> THEN <<>>
  ELSE IF Head(s) \in Whitespace THEN LStrip(Tail(s)) ELSE s

RECURSIVE RStrip(_)
RStrip(s) ==
  IF s = <<>> THEN <<>>
  ELSE IF s[Len(s)] \in Whitespace THEN RStrip(SubSeq(s, 1, Len(s) - 1)) ELSE s

\* str.strip(): leading and trailing whitespace removed.
Strip(s) == RStrip(LStrip(s))

Space == <<" ">>

(***************************************************************************)
(* Cue sheet text (Python str and re semantics).                           *)
(***************************************************************************)
\* The characters of str.isdigit() outside ASCII (Unicode digits: full-width,
\* superscript, Arabic-Indic and so on).
UnicodeDigits ==
  {"U+00B2", "U+00B3", "U+00B9", "U+0660", "U+0661", "U+0662", "U+0663",
   "U+0664", "U+0665", "U+0666", "U+0667", "U+0668", "U+0669", "U+06F0",
   "U+06F1", "U+06F2", "U+06F3", "U+06F4", "U+06F5", "U+06F6", "U+06F7",
   "U+06F8", "U+06F9", "U+07C0", "U+07C1", "U+07C2", "U+07C3", "U+07C4",
   "U+07C5", "U+07C6", "U+07C7", "U+07C8", "U+07C9", "U+0966", "U+0967",
   "U+0968", "U+0969", "U+096A", "U+096B", "U+096C", "U+096D", "U+096E",
   "U+096F", "U+09E6", "U+09E7", "U+09E8", "U+09E9", "U+09EA", "U+09EB",
   "U+09EC", "U+09ED", "U+09EE", "U+09EF", "U+0A66", "U+0A67", "U+0A68",
   "U+0A69", "U+0A6A", "U+0A6B", "U+0A6C", "U+0A6D", "U+0A6E", "U+0A6F",
   "U+0AE6", "U+0AE7", "U+0AE8", "U+0AE9", "U+0AEA", "U+0AEB", "U+0AEC",
   "U+0AED", "U+0AEE", "U+0AEF", "U+0B66", "U+0B67", "U+0B68", "U+0B69",
   "U+0B6A", "U+0B6B", "U+0B6C", "U+0B6D", "U+0B6E", "U+0B6F", "U+0BE6",
   "U+0BE7", "U+0BE8", "U+0BE9", "U+0BEA", "U+0BEB", "U+0BEC", "U+0BED",
   "U+0BEE", "U+0BEF", "U+0C66", "U+0C67", "U+0C68", "U+0C69", "U+0C6A",
   "U+0C6B", "U+0C6C", "U+0C6D", "U+0C6E", "U+0C6F", "U+0CE6", "U+0CE7",
   "U+0CE8", "U+0CE9", "U+0CEA", "U+0CEB", "U+0CEC", "U+0CED", "U+0CEE",
   "U+0CEF", "U+0D66", "U+0D67", "U+0D68", "U+0D69", "U+0D6A", "U+0D6B",
   "U+0D6C", "U+0D6D", "U+0D6E", "U+0D6F", "U+0DE6", "U+0DE7", "U+0DE8",
   "U+0DE9", "U+0DEA", "U+0DEB", "U+0DEC", "U+0DED", "U+0DEE", "U+0DEF",
   "U+0E50", "U+0E51", "U+0E52", "U+0E53", "U+0E54", "U+0E55", "U+0E56",
   "U+0E57", "U+0E58", "U+0E59", "U+0ED0", "U+0ED1", "U+0ED2", "U+0ED3",
   "U+0ED4", "U+0ED5", "U+0ED6", "U+0ED7", "U+0ED8", "U+0ED9", "U+0F20",
   "U+0F21", "U+0F22", "U+0F23", "U+0F24", "U+0F25", "U+0F26", "U+0F27",
   "U+0F28", "U+0F29", "U+1040", "U+1041", "U+1042", "U+1043", "U+1044",
   "U+1045", "U+1046", "U+1047", "U+1048", "U+1049", "U+1090", "U+1091",
   "U+1092", "U+1093", "U+1094", "U+1095", "U+1096", "U+1097", "U+1098",
   "U+1099", "U+1369", "U+136A", "U+136B", "U+136C", "U+136D", "U+136E",
   "U+136F", "U+1370", "U+1371", "U+17E0", "U+17E1", "U+17E2", "U+17E3",
   "U+17E4", "U+17E5", "U+17E6", "U+17E7", "U+17E8", "U+17E9", "U+1810",
   "U+1811", "U+1812", "U+1813", "U+1814", "U+1815", "U+1816", "U+1817",
   "U+1818", "U+1819", "U+1946", "U+1947", "U+1948", "U+1949", "U+194A",
   "U+194B", "U+194C", "U+194D", "U+194E", "U+194F", "U+19D0", "U+19D1",
   "U+19D2", "U+19D3", "U+19D4", "U+19D5", "U+19D6", "U+19D7", "U+19D8",
   "U+19D9", "U+19DA", "U+1A80", "U+1A81", "U+1A82", "U+1A83", "U+1A84",
   "U+1A85", "U+1A86", "U+1A87", "U+1A88", "U+1A89", "U+1A90", "U+1A91",
   "U+1A92", "U+1A93", "U+1A94", "U+1A95", "U+1A96", "U+1A97", "U+1A98",
   "U+1A99", "U+1B50", "U+1B51", "U+1B52", "U+1B53", "U+1B54", "U+1B55",
   "U+1B56", "U+1B57", "U+1B58", "U+1B59", "U+1BB0", "U+1BB1", "U+1BB2",
   "U+1BB3", "U+1BB4", "U+1BB5", "U+1BB6", "U+1BB7", "U+1BB8", "U+1BB9",
   "U+1C40", "U+1C41", "U+1C42", "U+1C43", "U+1C44", "U+1C45", "U+1C46",
   "U+1C47", "U+1C48", "U+1C49", "U+1C50", "U+1C51", "U+1C52", "U+1C53",
   "U+1C54", "U+1C55", "U+1C56", "U+1C57", "U+1C58", "U+1C59", "U+2070",
   "U+2074", "U+2075", "U+2076", "U+2077", "U+2078", "U+2079", "U+2080",
   "U+2081", "U+2082", "U+2083", "U+2084", "U+2085", "U+2086", "U+2087",
   "U+2088", "U+2089", "U+2460", "U+2461", "U+2462", "U+2463", "U+2464",
   "U+2465", "U+2466", "U+2467", "U+2468", "U+2474", "U+2475", "U+2476",
   "U+2477", "U+2478", "U+2479", "U+247A", "U+247B", "U+247C", "U+2488",
   "U+2489", "U+248A", "U+248B", "U+248C", "U+248D", "U+248E", "U+248F",
   "U+2490", "U+24EA", "U+24F5", "U+24F6", "U+24F7", "U+24F8", "U+24F9",
   "U+24FA", "U+24FB", "U+24FC", "U+24FD", "U+24FF", "U+2776", "U+2777",
   "U+2778", "U+2779", "U+277A", "U+277B", "U+277C", "U+277D", "U+277E",
   "U+2780", "U+2781", "U+2782", "U+2783", "U+2784", "U+2785", "U+2786",
   "U+2787", "U+2788", "U+278A", "U+278B", "U+278C", "U+278D", "U+278E",
   "U+278F", "U+2790", "U+2791", "U+2792", "U+A620", "U+A621", "U+A622",
   "U+A623", "U+A624", "U+A625", "U+A626", "U+A627", "U+A628", "U+A629",
   "U+A8D0", "U+A8D1", "U+A8D2", "U+A8D3", "U+A8D4", "U+A8D5", "U+A8D6",
   "U+A8D7", "U+A8D8", "U+A8D9", "U+A900", "U+A901", "U+A902", "U+A903",
   "U+A904", "U+A905", "U+A906", "U+A907", "U+A908", "U+A909", "U+A9D0",
   "U+A9D1", "U+A9D2", "U+A9D3", "U+A9D4", "U+A9D5", "U+A9D6", "U+A9D7",
   "U+A9D8", "U+A9D9", "U+A9F0", "U+A9F1", "U+A9F2", "U+A9F3", "U+A9F4",
   "U+A9F5", "U+A9F6", "U+A9F7", "U+A9F8", "U+A9F9", "U+AA50", "U+AA51",
   "U+AA52", "U+AA53", "U+AA54", "U+AA55", "U+AA56", "U+AA57", "U+AA58",
   "U+AA59", "U+ABF0", "U+ABF1", "U+ABF2", "U+ABF3", "U+ABF4", "U+ABF5",
   "U+ABF6", "U+ABF7", "U+ABF8", "U+ABF9", "U+FF10", "U+FF11", "U+FF12",
   "U+FF13", "U+FF14", "U+FF15", "U+FF16", "U+FF17", "U+FF18", "U+FF19",
   "U+104A0", "U+104A1", "U+104A2", "U+104A3", "U+104A4", "U+104A5",
   "U+104A6", "U+104A7", "U+104A8", "U+104A9", "U+10A40", "U+10A41",
   "U+10A42", "U+10A43", "U+10D30", "U+10D31", "U+10D32", "U+10D33",
   "U+10D34", "U+10D35", "U+10D36", "U+10D37", "U+10D38", "U+10D39",
   "U+10E60", "U+10E61", "U+10E62", "U+10E63", "U+10E64", "U+10E65",
   "U+10E66", "U+10E67", "U+10E68", "U+11052", "U+11053", "U+11054",
   "U+11055", "U+11056", "U+11057", "U+11058", "U+11059", "U+1105A",
   "U+11066", "U+11067", "U+11068", "U+11069", "U+1106A", "U+1106B",
   "U+1106C", "U+1106D", "U+1106E", "U+1106F", "U+110F0", "U+110F1",
   "U+110F2", "U+110F3", "U+110F4", "U+110F5", "U+110F6", "U+110F7",
   "U+110F8", "U+110F9", "U+11136", "U+11137", "U+11138", "U+11139",
   "U+1113A", "U+1113B", "U+1113C", "U+1113D", "U+1113E", "U+1113F",
   "U+111D0", "U+111D1", "U+111D2", "U+111D3", "U+111D4", "U+111D5",
   "U+111D6", "U+111D7", "U+111D8", "U+111D9", "U+112F0", "U+112F1",
   "U+112F2", "U+112F3", "U+112F4", "U+112F5", "U+112F6", "U+112F7",
   "U+112F8", "U+112F9", "U+11450", "U+11451", "U+11452", "U+11453",
   "U+11454", "U+11455", "U+11456", "U+11457", "U+11458", "U+11459",
   "U+114D0", "U+114D1", "U+114D2", "U+114D3", "U+114D4", "U+114D5",
   "U+114D6", "U+114D7", "U+114D8", "U+114D9", "U+11650", "U+11651",
   "U+11652", "U+11653", "U+11654", "U+11655", "U+11656", "U+11657",
   "U+11658", "U+11659", "U+116C0", "U+116C1", "U+116C2", "U+116C3",
   "U+116C4", "U+116C5", "U+116C6", "U+116C7", "U+116C8", "U+116C9",
   "U+11730", "U+11731", "U+11732", "U+11733", "U+11734", "U+11735",
   "U+11736", "U+11737", "U+11738", "U+11739", "U+118E0", "U+118E1",
   "U+118E2", "U+118E3", "U+118E4", "U+118E5", "U+118E6", "U+118E7",
   "U+118E8", "U+118E9", "U+11950", "U+11951", "U+11952", "U+11953",
   "U+11954", "U+11955", "U+11956", "U+11957", "U+11958", "U+11959",
   "U+11C50", "U+11C51", "U+11C52", "U+11C53", "U+11C54", "U+11C55",
   "U+11C56", "U+11C57", "U+11C58", "U+11C59", "U+11D50", "U+11D51",
   "U+11D52", "U+11D53", "U+11D54", "U+11D55", "U+11D56", "U+11D57",
   "U+11D58", "U+11D59", "U+11DA0", "U+11DA1", "U+11DA2", "U+11DA3",
   "U+11DA4", "U+11DA5", "U+11DA6", "U+11DA7", "U+11DA8", "U+11DA9",
   "U+16A60", "U+16A61", "U+16A62", "U+16A63", "U+16A64", "U+16A65",
   "U+16A66", "U+16A67", "U+16A68", "U+16A69", "U+16AC0", "U+16AC1",
   "U+16AC2", "U+16AC3", "U+16AC4", "U+16AC5", "U+16AC6", "U+16AC7",
   "U+16AC8", "U+16AC9", "U+16B50", "U+16B51", "U+16B52", "U+16B53",
   "U+16B54", "U+16B55", "U+16B56", "U+16B57", "U+16B58", "U+16B59",
   "U+1D7CE", "U+1D7CF", "U+1D7D0", "U+1D7D1", "U+1D7D2", "U+1D7D3",
   "U+1D7D4", "U+1D7D5", "U+1D7D6", "U+1D7D7", "U+1D7D8", "U+1D7D9",
   "U+1D7DA", "U+1D7DB", "U+1D7DC", "U+1D7DD", "U+1D7DE", "U+1D7DF",
   "U+1D7E0", "U+1D7E1", "U+1D7E2", "U+1D7E3", "U+1D7E4", "U+1D7E5",
   "U+1D7E6", "U+1D7E7", "U+1D7E8", "U+1D7E9", "U+1D7EA", "U+1D7EB",
   "U+1D7EC", "U+1D7ED", "U+1D7EE", "U+1D7EF", "U+1D7F0", "U+1D7F1",
   "U+1D7F2", "U+1D7F3", "U+1D7F4", "U+1D7F5", "U+1D7F6", "U+1D7F7",
   "U+1D7F8", "U+1D7F9", "U+1D7FA", "U+1D7FB", "U+1D7FC", "U+1D7FD",
   "U+1D7FE", "U+1D7FF", "U+1E140", "U+1E141", "U+1E142", "U+1E143",
   "U+1E144", "U+1E145", "U+1E146", "U+1E147", "U+1E148", "U+1E149",
   "U+1E2F0", "U+1E2F1", "U+1E2F2", "U+1E2F3", "U+1E2F4", "U+1E2F5",
   "U+1E2F6", "U+1E2F7", "U+1E2F8", "U+1E2F9", "U+1E950", "U+1E951",
   "U+1E952", "U+1E953", "U+1E954", "U+1E955", "U+1E956", "U+1E957",
   "U+1E958", "U+1E959", "U+1F100", "U+1F101", "U+1F102", "U+1F103",
   "U+1F104", "U+1F105", "U+1F106", "U+1F107", "U+1F108", "U+1F109",
   "U+1F10A", "U+1FBF0", "U+1FBF1", "U+1FBF2", "U+1FBF3", "U+1FBF4",
   "U+1FBF5", "U+1FBF6", "U+1FBF7", "U+1FBF8", "U+1FBF9"}

\* The characters for which str.isdigit() holds.
Digits ==
  {"0", "1", "2", "3", "4", "5", "6", "7", "8", "9"} \cup UnicodeDigits

\* s.startswith(prefix)
StartsWith(s, prefix) ==
  /\ Len(prefix) <= Len(s)
  /\ SubSeq(s, 1, Len(prefix)) = prefix

\* pattern in s
Contains(s, pattern) ==
  \E k \in 1..(Len(s) - Len(pattern) + 1) :
    SubSeq(s, k, k + Len(pattern) - 1) = pattern

\* s.isdigit(): at least one character and all of them digits.
IsDigit(s) == s # <<>> /\ \A k \in 1..Len(s) : s[k] \in Digits

\* The position of the first ch in s, or 0.
IndexOf(s, ch) ==
  IF \E k \in 1..Len(s) : s[k] = ch
    THEN CHOOSE k \in 1..Len(s) : s[k] = ch /\ \A m \in 1..(k - 1) : s[m] # ch
    ELSE 0

RECURSIVE Split(_, _)
\* s.split(sep) for a one-character separator: never empty, "" gives [""].
Split(s, sep) ==
  LET k == IndexOf(s, sep)
  IN  IF k = 0 THEN <<s>>
      ELSE <<SubSeq(s, 1, k - 1)>> \o Split(SubSeq(s, k + 1, Len(s)), sep)

\* The line boundaries of str.splitlines().
LineBreaks ==
  {"\n", "U+000B", "\f", "\r", "U+001C", "U+001D", "U+001E", "U+0085",
   "U+2028", "U+2029"}

RECURSIVE SplitLines(_)
\* s.splitlines(): "\r\n" is one line boundary, there is no last empty
\* line, and "" gives [].
SplitLines(s) ==
  LET breaks == {k \in 1..Len(s) : s[k] \in LineBreaks}
  IN  IF s = <<>> THEN <<>>
      ELSE IF breaks = {} THEN <<s>>
      ELSE LET first == CHOOSE k \in breaks : \A j \in breaks : k <= j
               width == IF s[first] = "\r" /\ first < Len(s)
                           /\ s[first + 1] = "\n" THEN 2 ELSE 1
           IN  <<SubSeq(s, 1, first - 1)>>
                 \o SplitLines(SubSeq(s, first + width, Len(s)))

RECURSIVE JoinWith(_, _)
\* sep.join(texts)
JoinWith(texts, sep) ==
  IF texts = <<>> THEN <<>>
  ELSE IF Len(texts) = 1 THEN texts[1]
  ELSE texts[1] \o sep \o JoinWith(Tail(texts), sep)

RECURSIVE RemoveTags(_)
\* re.sub(r'<[^>]+>', '', s): a tag is "<", one or more characters other
\* than ">", and ">"; "<>" is no tag.
RemoveTags(s) ==
  IF s = <<>> THEN <<>>
  ELSE IF Head(s) = "<"
    THEN LET close == IndexOf(Tail(s), ">")
         IN  IF close >= 2
               THEN RemoveTags(SubSeq(s, close + 2, Len(s)))
               ELSE <<"<">> \o RemoveTags(Tail(s))
  ELSE <<Head(s)>> \o RemoveTags(Tail(s))

HeaderToken ==
  <<"W", "E", "B", "V", "T", "T">>
ArrowToken ==
  <<"-", "-", ">">>

MetadataPrefixes ==
  {HeaderToken, <<"N", "O", "T", "E">>, <<"S", "T", "Y", "L", "E">>,
   <<"R", "E", "G", "I", "O", "N">>}

\* line.startswith(("WEBVTT", "NOTE", "STYLE", "REGION"))
IsMetadata(line) == \E prefix \in MetadataPrefixes : StartsWith(line, prefix)

\* A mutant of KeepLine: a line already kept is not kept again.
KeepLineOnce(text_lines, clean_line) ==
  IF \E k \in 1..Len(text_lines) : text_lines[k] = clean_line
    THEN text_lines
    ELSE Append(text_lines, clean_line)

\* text_lines.append(clean_line)
KeepLine(text_lines, clean_line) == Append(text_lines, clean_line)

\* A mutant of ClassifyLine: a blank line does not end the cue body.
ClassifyLineBlankKeepsCue(state, raw_line) ==
  LET line == Strip(raw_line)
      clean_line == RemoveTags(line)
  IN  IF Contains(line, ArrowToken) THEN <<TRUE, state[2]>>
      ELSE IF line = <<>> \/ IsDigit(line) \/ IsMetadata(line) THEN state
      ELSE IF state[1] /\ clean_line # <<>>
        THEN <<TRUE, KeepLine(state[2], clean_line)>>
      ELSE state

\* A mutant of ClassifyLine: a digits-only line ends the cue body, as a
\* blank line does.
ClassifyLineDigitsEndCue(state, raw_line) ==
  LET line == Strip(raw_line)
      clean_line == RemoveTags(line)
  IN  IF Contains(line, ArrowToken) THEN <<TRUE, state[2]>>
      ELSE IF line = <<>> \/ IsDigit(line) THEN <<FALSE, state[2]>>
      ELSE IF IsMetadata(line) THEN state
      ELSE IF state[1] /\ clean_line # <<>>
        THEN <<TRUE, KeepLine(state[2], clean_line)>>
      ELSE state

\* A mutant of ClassifyLine: the metadata prefixes are looked at only
\* outside a cue body.
ClassifyLineMetadataInCue(state, raw_line) ==
  LET line == Strip(raw_line)
      clean_line == RemoveTags(line)
  IN  IF Contains(line, ArrowToken) THEN <<TRUE, state[2]>>
      ELSE IF line = <<>> THEN <<FALSE, state[2]>>
      ELSE IF IsDigit(line) THEN state
      ELSE IF state[1] /\ clean_line # <<>>
        THEN <<TRUE, KeepLine(state[2], clean_line)>>
      ELSE state

\* One turn of the loop over the lines: from <<in_cue, text_lines>> and the
\* next line to the new <<in_cue, text_lines>>.
ClassifyLine(state, raw_line) ==
  LET line == Strip(raw_line)
      in_cue == state[1]
      text_lines == state[2]
      clean_line == RemoveTags(line)
  IN  IF Contains(line, ArrowToken) THEN <<TRUE, text_lines>>
      ELSE IF line = <<>> THEN <<FALSE, text_lines>>
      ELSE IF IsDigit(line) THEN state
      ELSE IF IsMetadata(line) THEN state
      ELSE IF in_cue /\ clean_line # <<>>
        THEN <<in_cue, KeepLine(text_lines, clean_line)>>
      ELSE state

RECURSIVE ClassifyLines(_, _)
ClassifyLines(state, lines) ==
  IF lines = <<>> THEN state
  ELSE ClassifyLines(ClassifyLine(state, Head(lines)), Tail(lines))

\* The line classification of read_vtt_file: split on "\n", classify every
\* line, join the kept lines with a space.
ExtractCueText(content) ==
  JoinWith(ClassifyLines(<<FALSE, <<>> >>, Split(content, "\n"))[2], Space)

\* The same loop, written out again in show_main_page for pasted text.
PastedCueText(pasted_text) == ExtractCueText(pasted_text)

\* is_vtt_format = pasted_text.strip().startswith("WEBVTT")
IsVttFormat(pasted_text) == StartsWith(Strip(pasted_text), HeaderToken)

\* content.startswith("WEBVTT")
HasHeader(content) == StartsWith(content, HeaderToken)

(***************************************************************************)
(* The structured path: webvtt.read_buffer(content.splitlines()) and the   *)
(* loop over its captions.  The library takes the lines in blocks          *)
(* separated by blank lines; a block is a cue when a timing line is its    *)
(* first line, or its second after an identifier, and text follows; the    *)
(* caption's text is its payload lines joined by "\n" with the tags        *)
(* removed.  It raises when the first line does not start with WEBVTT.     *)
(***************************************************************************)
Timing1 ==
  <<"0", "0", ":", "0", "0", ":", "0", "0", ".", "0", "0", "0", " ", "-",
    "-", ">", " ", "0", "0", ":", "0", "0", ":", "0", "2", ".", "0", "0",
    "0">>
Timing2 ==
  <<"0", "0", ":", "0", "0", ":", "0", "2", ".", "0", "0", "0", " ", "-",
    "-", ">", " ", "0", "0", ":", "0", "0", ":", "0", "4", ".", "0", "0",
    "0">>

\* The timing lines of the inputs; the library matches
\* \s*hh:mm:ss.ttt\s*-->\s*hh:mm:ss.ttt at the start of the line.
TimingLines == {Timing1, Timing2}

LibTimingLine(line) == \E t \in TimingLines : StartsWith(LStrip(line), t)

RECURSIVE LibBlocks(_, _)
\* The blocks of consecutive non-blank lines.
LibBlocks(lines, current) ==
  IF lines = <<>>
    THEN IF current = <<>> THEN <<>> ELSE <<current>>
  ELSE IF Strip(Head(lines)) # <<>>
    THEN LibBlocks(Tail(lines), Append(current, Head(lines)))
  ELSE IF current = <<>> THEN LibBlocks(Tail(lines), <<>>)
  ELSE <<current>> \o LibBlocks(Tail(lines), <<>>)

LibCueBlock(block) ==
  \/ /\ Len(block) >= 2
     /\ LibTimingLine(block[1])
     /\ ~Contains(block[2], ArrowToken)
  \/ /\ Len(block) >= 3
     /\ ~Contains(block[1], ArrowToken)
     /\ LibTimingLine(block[2])
     /\ ~Contains(block[3], ArrowToken)

RECURSIVE LibRemoveTags(_)
\* The library's '<.*?>': "<" up to the next ">" on the same line.
LibRemoveTags(s) ==
  IF s = <<>> THEN <<>>
  ELSE IF Head(s) = "<" /\ IndexOf(Tail(s), ">") >= 1
    THEN LibRemoveTags(SubSeq(s, IndexOf(Tail(s), ">") + 2, Len(s)))
  ELSE <<Head(s)>> \o LibRemoveTags(Tail(s))

\* caption.text: the lines after the timing line, timing lines left out.
LibCaptionText(block) ==
  LET first == IF LibTimingLine(block[1]) THEN 1 ELSE 2
      payload == SelectSeq(SubSeq(block, first + 1, Len(block)),
                           LAMBDA l : ~LibTimingLine(l))
  IN  JoinWith([k \in 1..Len(payload) |-> LibRemoveTags(payload[k])],
               <<"\n">>)

\* The library accepts the lines: there is a first line and it starts
\* with WEBVTT.
LibValid(content) ==
  LET lines == SplitLines(content)
  IN  lines # <<>> /\ StartsWith(lines[1], HeaderToken)

\* The texts of the captions, in the order of the blocks.
LibCaptions(content) ==
  LET cues == SelectSeq(LibBlocks(SplitLines(content), <<>>), LibCueBlock)
  IN  [k \in 1..Len(cues) |-> LibCaptionText(cues[k])]

RECURSIVE CleanCaptions(_)
\* clean_text = re.sub(r'<[^>]+>', '', caption.text)
\* if clean_text.strip(): text_lines.append(clean_text.strip())
CleanCaptions(captions) ==
  IF captions = <<>> THEN <<>>
  ELSE LET clean_text == RemoveTags(Head(captions))
       IN  IF Strip(clean_text) # <<>>
             THEN <<Strip(clean_text)>> \o CleanCaptions(Tail(captions))
             ELSE CleanCaptions(Tail(captions))

\* A mutant of StructuredText: the captions are joined with line breaks.
StructuredTextPerLine(captions) ==
  JoinWith(CleanCaptions(captions), <<"\n">>)

\* return " ".join(text_lines)
StructuredText(captions) == JoinWith(CleanCaptions(captions), Space)

\* A mutant of read_vtt_file: a failure of the library is passed on to the
\* caller instead of being answered with the line classification.
read_vtt_file_propagating(content, lib) ==
  IF lib = "unavailable"
    THEN [path |-> "fallback", warnings |-> 0,
          error |-> ~HasHeader(content),
          text |-> IF HasHeader(content) THEN ExtractCueText(content)
                   ELSE <<>>]
  ELSE IF lib = "parsed" /\ LibValid(content)
    THEN [path |-> "structured", warnings |-> 0, error |-> FALSE,
          text |-> StructuredText(LibCaptions(content))]
  ELSE [path |-> "structured", warnings |-> 0, error |-> TRUE,
        text |-> <<>>]

(***************************************************************************)
(* read_vtt_file.  lib says what the webvtt library does: "unavailable"    *)
(* (WEBVTT_AVAILABLE is False), "raises" (read_buffer raises whatever the  *)
(* content), or "parsed" (it parses, and raises only on content it does    *)
(* not accept).                                                            *)
(***************************************************************************)
LibOutcomes == {"unavailable", "raises", "parsed"}

read_vtt_file(content, lib) ==
  IF lib = "parsed" /\ LibValid(content)
    THEN [path |-> "structured", warnings |-> 0, error |-> FALSE,
          text |-> StructuredText(LibCaptions(content))]
  ELSE LET warnings == IF lib = "unavailable" THEN 0 ELSE 1
       IN  IF ~HasHeader(content)
             THEN [path |-> "fallback", warnings |-> warnings,
                   error |-> TRUE, text |-> <<>>]
             ELSE [path |-> "fallback", warnings |-> warnings,
                   error |-> FALSE, text |-> ExtractCueText(content)]

(***************************************************************************)
(* Audio arithmetic.  An audio stream is frame_count frames at frame_rate  *)
(* frames per second: audio.duration_seconds = frame_count / frame_rate    *)
(* and len(audio) = round(1000 * duration_seconds), Python's round to the  *)
(* nearest integer with ties to the even one.                              *)
(***************************************************************************)
CeilDiv(a, b) == (a + b - 1) \div b

RoundHalfEven(a, b) ==
  LET q == a \div b
      r == a % b
  IN  IF 2 * r > b \/ (2 * r = b /\ q % 2 = 1) THEN q + 1 ELSE q

\* len(audio): the whole-millisecond length.
AudioLen(frames, rate) == RoundHalfEven(1000 * frames, rate)

\* A mutant of NumChunks: floor instead of ceil.
NumChunksFloor(frames, rate) == frames \div (rate * chunk_size_sec)

\* num_chunks = math.ceil(duration_sec / chunk_size_sec)
NumChunks(frames, rate) == CeilDiv(frames, rate * chunk_size_sec)

\* A mutant of StartMs: windows overlap by one second.
StartMsOverlap(k) == IF k = 0 THEN 0 ELSE k * chunk_size_sec * 1000 - 1000

\* start_ms = i * chunk_size_sec * 1000
StartMs(k) == k * chunk_size_sec * 1000

Min(a, b) == IF a <= b THEN a ELSE b

\* end_ms = min((i + 1) * chunk_size_sec * 1000, len(audio))
EndMs(k, length) == Min((k + 1) * chunk_size_sec * 1000, length)

\* A mutant of FileTooLarge: a file of exactly 200 MB is rejected too.
FileTooLargeInclusive(size) == size >= MaxFileSizeMB * BytesPerMB

\* file_size_mb = size / (1024 * 1024); file_size_mb > 200
FileTooLarge(size) == size > MaxFileSizeMB * BytesPerMB

\* A mutant of Progress: the fraction of chunks completed before this one.
ProgressBefore(k, n) == <<k, n>>

\* progress = (i + 1) / num_chunks, kept as <<numerator, denominator>>.
Progress(k, n) == <<k + 1, n>>

\* A mutant of NextIndex: every other chunk is skipped.
NextIndexSkip(k) == k + 2

\* for i in range(num_chunks): the index after k.
NextIndex(k) == k + 1

\* A mutant of AppendChunk: the new chunk is put in front.
AppendInFront(text, chunk) == chunk \o Space \o text

\* transcribed_text += chunk_text + " "
AppendChunk(text, chunk) == text \o chunk \o Space

(***************************************************************************)
(* Inputs.                                                                 *)
(***************************************************************************)
FrameRates == {8000}
\* Frames added to or taken from a multiple of half a window: 1 frame is
\* 0.125 ms and 4 frames are 0.5 ms at 8000 Hz.
SlackFrames == {-4, -1, 0, 1, 4}

FrameCounts(rate) ==
  {n \in {w * ((rate * chunk_size_sec) \div 2) + d :
            w \in 0..MaxHalfWindows, d \in SlackFrames} : n >= 0}

\* The texts model.transcribe returns for a chunk.
SegTexts == {<<>>, <<" ", "a">>, <<"b">>}

\* The contents of an uploaded plain text file.
TextFiles == {<<"o", "l", "d">>}

\* os.unlink of the chunk's temporary file is called while the file is still
\* open: it succeeds on POSIX and raises PermissionError on Windows ("nt").
Platforms == {"posix", "nt"}

(***************************************************************************)
(* Cue sheet inputs: every text of fewer than MaxDocLines lines taken     *)
(* from LinePool, every text of MaxDocLines lines that opens with the      *)
(* header line, every cue sheet of header line, timing line and           *)
(* MaxDocLines - 2 lines of MetadataPool, and the cue sheets of the        *)
(* scenarios.                                                              *)
(***************************************************************************)
HelloLine ==
  <<"H", "e", "l", "l", "o", " ", "<", "b", ">", "w", "o", "r", "l", "d",
    "<", "/", "b", ">">>
SecondLine ==
  <<"S", "e", "c", "o", "n", "d", " ", "l", "i", "n", "e">>
NoteLine ==
  <<"N", "O", "T", "E", " ", "t", "h", "i", "s", " ", "w", "a", "s", " ",
    "c", "u", "t">>

LinePool ==
  {HeaderToken, <<>>, <<"1">>, Timing1, HelloLine, SecondLine, NoteLine}

\* Lines that start with a metadata word: the bare word, the word with a
\* setting, the word after blanks, and a line that also holds "-->".
StyleLine == <<"S", "T", "Y", "L", "E">>
RegionLine == <<"R", "E", "G", "I", "O", "N", " ", "i", "d", ":", "r">>
IndentedNoteLine == <<" ", "\t", "N", "O", "T", "E", " ", "x">>
NoteArrowLine == <<"N", "O", "T", "E", " ", "a", " ", "-", "-", ">", " ", "b">>

MetadataPool ==
  {StyleLine, RegionLine, IndentedNoteLine, NoteArrowLine, <<>>, SecondLine}

NewLine == <<"\n">>

Scenario5Doc ==
  <<"W", "E", "B", "V", "T", "T", "\n", "\n", "1", "\n", "0", "0", ":",
    "0", "0", ":", "0", "0", ".", "0", "0", "0", " ", "-", "-", ">", " ",
    "0", "0", ":", "0", "0", ":", "0", "2", ".", "0", "0", "0", "\n",
    "H", "e", "l", "l", "o", " ", "<", "b", ">", "w", "o", "r", "l", "d",
    "<", "/", "b", ">", "\n", "\n", "2", "\n", "0", "0", ":", "0", "0",
    ":", "0", "2", ".", "0", "0", "0", " ", "-", "-", ">", " ", "0", "0",
    ":", "0", "0", ":", "0", "4", ".", "0", "0", "0", "\n", "S", "e",
    "c", "o", "n", "d", " ", "l", "i", "n", "e">>

\* The two cues of scenario 5 with the later one first.
ReversedDoc ==
  JoinWith(<<HeaderToken, <<>>, Timing2, SecondLine, <<>>, Timing1,
             HelloLine>>, NewLine)

\* A cue whose text, once its tags are stripped, is the header token.
TaggedHeaderLine ==
  <<"<", "b", ">", "W", "E", "B", "V", "T", "T", "<", "/", "b", ">">>
TaggedHeaderDoc ==
  JoinWith(<<HeaderToken, <<>>, Timing1, TaggedHeaderLine>>, NewLine)

\* A cue sheet with Windows line ends, a cue index of full-width digits,
\* a cue line between ideographic spaces and a form feed that ends the cue.
WideDoc ==
  JoinWith(<<HeaderToken, Timing1, <<"U+FF11", "U+FF12">>,
             <<"U+3000">> \o SecondLine \o <<"U+3000">>, <<"\f">>,
             HelloLine>>, <<"\r", "\n">>)

\* A cue sheet file saved with a byte order mark: decode("utf-8") keeps
\* the mark as the first character.
BomDoc ==
  <<"U+FEFF">> \o JoinWith(<<HeaderToken, <<>>, Timing1, SecondLine>>, NewLine)

\* The cue sheets and texts that are at hand together in a session.
NamedDocs ==
  {Scenario5Doc, ReversedDoc, TaggedHeaderDoc, WideDoc, SecondLine}

Docs ==
  {JoinWith(ls, NewLine) :
     ls \in UNION {[1..n -> LinePool] : n \in 1..(MaxDocLines - 1)}}
  \cup {JoinWith(<<HeaderToken>> \o ls, NewLine) :
          ls \in [1..(MaxDocLines - 1) -> LinePool]}
  \cup {JoinWith(<<HeaderToken, Timing1>> \o ls, NewLine) :
          ls \in [1..(MaxDocLines - 2) -> MetadataPool]}
  \cup {Scenario5Doc, ReversedDoc, TaggedHeaderDoc, WideDoc, BomDoc}

(***************************************************************************)
(* Prompt templates and settings.  A dict of prompts is a function from    *)
(* names to bodies; names, bodies, keys and model names are short texts    *)
(* that stand for the real ones.                                           *)
(***************************************************************************)
\* The one default template, "標準ビジネス議事録", and its body.
DefaultName == <<"s", "t", "d">>
DefaultBody == <<"{", "t", "r", "a", "n", "s", "c", "r", "i", "p", "t", "}">>

\* A name no default template has.
CustomName == <<"m", "y">>

get_default_prompt_templates == [name \in {DefaultName} |-> DefaultBody]

\* st.session_state.custom_prompts = {}
NoPrompts == [name \in {} |-> <<>>]

\* templates = get_default_prompt_templates()
\* templates.update(st.session_state.custom_prompts)
get_all_prompt_templates(custom_prompts) ==
  [name \in DOMAIN get_default_prompt_templates \cup DOMAIN custom_prompts |->
     IF name \in DOMAIN custom_prompts THEN custom_prompts[name]
     ELSE get_default_prompt_templates[name]]

\* d[name] = content
SetItem(d, name, content) ==
  [n \in DOMAIN d \cup {name} |-> IF n = name THEN content ELSE d[n]]

\* del d[name]
DelItem(d, name) == [n \in DOMAIN d \ {name} |-> d[n]]

\* d.update(other)
Update(d, other) ==
  [n \in DOMAIN d \cup DOMAIN other |->
     IF n \in DOMAIN other THEN other[n] ELSE d[n]]

\* What the user types as a prompt name and as a prompt body.
PromptNames == {<<>>, DefaultName, CustomName}
PromptBodies == {<<>>, <<"a">>, <<"b">>}

\* The JSON objects a prompt file holds: prompts under any non-empty names.
ImportedData ==
  UNION {[names -> PromptBodies \ {<<>>}] :
           names \in SUBSET (PromptNames \ {<<>>})}

ApiKeys == {<<"k", "e", "y">>}
GeminiModels ==
  {<<"g", "e", "m", "i", "n", "i", "-", "2", ".", "5", "-", "f", "l", "a",
     "s", "h">>,
   <<"g", "e", "m", "i", "n", "i", "-", "p", "r", "o">>}
DefaultGeminiModel ==
  <<"g", "e", "m", "i", "n", "i", "-", "2", ".", "5", "-", "f", "l", "a",
    "s", "h">>

\* The texts read_word_file extracts from a Word file.
WordTexts == {<<>>, <<"w", "o", "r", "d">>}

\* The replacement field of a prompt template that stands for the
\* transcript.
TranscriptField == DefaultBody

RECURSIVE Format(_, _)
\* prompt_template.format(transcript=transcript, date=current_date) for a
\* template whose only replacement fields are {transcript}.
Format(prompt_template, transcript) ==
  IF prompt_template = <<>> THEN <<>>
  ELSE IF StartsWith(prompt_template, TranscriptField)
    THEN transcript
           \o Format(SubSeq(prompt_template, Len(TranscriptField) + 1,
                            Len(prompt_template)), transcript)
  ELSE <<Head(prompt_template)>> \o Format(Tail(prompt_template), transcript)

\* model.generate_content(prompt).text: the answer is the service's to
\* give; it is the empty text or a text made from the prompt, which stands
\* here for itself.
generate_content(prompt) == {<<>>, prompt}

\* The texts generate_minutes_with_gemini can return when it does not raise.
generate_minutes_with_gemini(transcript, prompt_template) ==
  generate_content(Format(prompt_template, transcript))

\* What the user leaves in the text area of the minutes before saving.
EditedMinutes == {<<>>, <<"e", "d", "i", "t", "e", "d">>}

NoVttRun == [source |-> "none", content |-> <<>>, lib |-> "none",
             path |-> "none", warnings |-> 0, error |-> FALSE,
             text |-> <<>>]

None == [none |-> TRUE, text |-> <<>>]
Str(t) == [none |-> FALSE, text |-> t]

\* A mutant of ExceptResult: the text gathered so far is returned.
ExceptResultPartial(text) == Str(Strip(text))

\* except Exception: ... return None, whatever was gathered so far.
ExceptResult(text) == None

\* return transcribed_text.strip()
CompleteResult(text) == Str(Strip(text))
NoAudio == [frames |-> 0, rate |-> 0, length |-> 0]

(***************************************************************************)
(* The file in the uploader widget.  kind says which branch of             *)
(* show_main_page takes it, ok whether its text can be read, text the text *)
(* that reading it gives, read what read_vtt_file does on it (every run of *)
(* the page reads the file again); size, frames and rate describe an audio *)
(* file.                                                                   *)
(***************************************************************************)
NoFile == [kind |-> "none", ok |-> TRUE, size |-> 0, frames |-> 0,
           rate |-> 0, text |-> <<>>, read |-> NoVttRun]

AudioFile(size, frames, rate) ==
  [kind |-> "audio_video", ok |-> TRUE, size |-> size, frames |-> frames,
   rate |-> rate, text |-> <<>>, read |-> NoVttRun]

\* The audio files put in the uploader: every length at the size limit, and
\* one file over the limit, whose audio is never read.
AudioFiles ==
  {AudioFile(MaxFileSizeMB * BytesPerMB, frames, rate) :
     <<frames, rate>> \in UNION {FrameCounts(r) \X {r} : r \in FrameRates}}
  \cup {AudioFile(MaxFileSizeMB * BytesPerMB + 1, r * chunk_size_sec, r) :
          r \in FrameRates}

ReadableFile(kind, ok, text) ==
  [kind |-> kind, ok |-> ok, size |-> 0, frames |-> 0, rate |-> 0,
   text |-> IF ok THEN text ELSE <<>>, read |-> NoVttRun]

\* A cue sheet file: run is what read_vtt_file does on it.
VttFile(kind, run) ==
  [ReadableFile(kind, ~run.error, run.text) EXCEPT !.read = run]

\* Lines 711-724: the uploader sets file_type from the name of a Word or
\* cue sheet file and leaves it for every other name.
FileTypeByName(kind, file_type) ==
  IF kind \in {"word_renamed", "vtt_renamed", "word", "vtt"} THEN kind
  ELSE file_type

\* st.session_state.file_type as the branch of the file sets it; a .vtt
\* file is taken by the text branch.
FileType(kind) == IF kind = "vtt" THEN "text" ELSE kind

\* What a run of show_main_page does with the file in the uploader before
\* it comes to the minutes section: the text of a readable file is stored
\* again at every run.
ProcessUploadedFile(file, state) ==
  IF file.kind = "none" THEN state
  ELSE IF file.kind = "audio_video" \/ ~file.ok
    THEN [state EXCEPT !.file_type = FileType(file.kind)]
  ELSE [state EXCEPT !.file_type = FileType(file.kind),
                     !.transcribed_text = file.text]

\* except Exception: st.error(...); return: the run ends before the minutes
\* section.
ReturnsEarly(file) == file.kind \notin {"none", "audio_video"} /\ ~file.ok

VARIABLES
  platform,          \* os.name of the host, read when a run starts
  session_state,     \* st.session_state
  uploaded_file,     \* the file in the uploader widget
  pc,                \* position of the handler
  clicked,           \* the transcription button is pressed in this run
  effects,           \* what the run did before the loop
  audio,             \* the decoded AudioSegment
  num_chunks,
  i,
  start_ms,
  end_ms,
  transcribed_text,  \* the local accumulator of transcribe_audio
  chunk_text,        \* the text returned for the chunk in progress
  raised,            \* an exception is propagating
  tmp_file,          \* the upload's temporary file exists
  chunk_files,       \* per-chunk temporary files of the call that exist
  calls,             \* the chunks handed to model.transcribe, in order
  segments,          \* the texts model.transcribe returned, in order
  progress_bar,      \* the value of the progress bar
  progress_log,      \* the per-chunk progress reports, in order
  errors,            \* number of st.error messages of transcribe_audio
  result,            \* what transcribe_audio returned
  vtt_run,           \* the cue text extraction of the last run of the page
  cue_sheets         \* the cue sheets and texts the user has at hand

vars == <<platform, session_state, uploaded_file, pc, clicked, effects, audio,
          num_chunks, i, start_ms, end_ms, transcribed_text, chunk_text,
          raised, tmp_file, chunk_files, calls, segments, progress_bar,
          progress_log, errors, result, vtt_run, cue_sheets>>

runVars == <<effects, audio, num_chunks, i, start_ms, end_ms,
             transcribed_text, chunk_text, raised, tmp_file, chunk_files,
             calls, segments, progress_bar, progress_log, errors, result>>

\* A call of transcribe_audio starts: its locals and what it shows are new.
NewCall ==
  /\ effects' = {}
  /\ audio' = NoAudio
  /\ num_chunks' = 0
  /\ i' = 0
  /\ start_ms' = 0
  /\ end_ms' = 0
  /\ transcribed_text' = <<>>
  /\ chunk_text' = <<>>
  /\ raised' = FALSE
  /\ calls' = <<>>
  /\ segments' = <<>>
  /\ progress_bar' = <<0, 1>>
  /\ progress_log' = <<>>

\* A run of the script in which the transcription button is not pressed:
\* st.button returns False, transcribe_audio is not called and the page
\* shows nothing of an earlier call.  The files on disk stay.
NoTranscription ==
  /\ clicked' = FALSE
  /\ NewCall
  /\ errors' = 0
  /\ result' = None
  /\ UNCHANGED <<tmp_file, chunk_files>>

InitState ==
  /\ platform = "unread"
  /\ session_state = [transcribed_text |-> <<>>, minutes |-> <<>>,
                      file_type |-> "None", api_key |-> <<>>,
                      gemini_model |-> DefaultGeminiModel,
                      custom_prompts |-> NoPrompts, editing |-> {}]
  /\ uploaded_file = NoFile
  /\ pc = "idle"
  /\ clicked = FALSE
  /\ effects = {}
  /\ audio = NoAudio
  /\ num_chunks = 0
  /\ i = 0
  /\ start_ms = 0
  /\ end_ms = 0
  /\ transcribed_text = <<>>
  /\ chunk_text = <<>>
  /\ raised = FALSE
  /\ tmp_file = FALSE
  /\ chunk_files = 0
  /\ calls = <<>>
  /\ segments = <<>>
  /\ progress_bar = <<0, 1>>
  /\ progress_log = <<>>
  /\ errors = 0
  /\ result = None
  /\ vtt_run = NoVttRun

Init ==
  /\ cue_sheets = NamedDocs
  /\ InitState

\* A session about cue sheets: the user has one cue sheet of Docs at hand,
\* or the named ones together.
InitCue ==
  /\ cue_sheets \in {{content} : content \in Docs} \cup {NamedDocs}
  /\ InitState

(***************************************************************************)
(* show_main_page: a plain text file is put in the uploader; its text is   *)
(* stored, or reading it fails and the run returns.                        *)
(***************************************************************************)
UploadTextFile ==
  /\ pc = "idle"
  /\ \E ok \in BOOLEAN, t \in TextFiles :
       uploaded_file' = ReadableFile("text", ok, t)
  /\ session_state' = ProcessUploadedFile(uploaded_file', session_state)
  /\ vtt_run' = NoVttRun
  /\ NoTranscription
  /\ UNCHANGED <<cue_sheets, platform, pc>>

(***************************************************************************)
(* show_main_page: an audio or video file is put in the uploader; the run  *)
(* shows the transcription button.                                         *)
(***************************************************************************)
UploadAudioFile ==
  /\ pc = "idle"
  /\ uploaded_file' \in AudioFiles
  /\ session_state' = ProcessUploadedFile(uploaded_file', session_state)
  /\ vtt_run' = NoVttRun
  /\ NoTranscription
  /\ UNCHANGED <<cue_sheets, platform, pc>>

(***************************************************************************)
(* show_main_page: the transcription button is pressed with an audio file  *)
(* in the uploader; transcribe_audio starts with the size guard.           *)
(***************************************************************************)
ClickTranscribe ==
  /\ pc = "idle"
  /\ uploaded_file.kind = "audio_video"
  /\ clicked' = TRUE
  /\ platform' \in Platforms
  /\ session_state' = ProcessUploadedFile(uploaded_file, session_state)
  /\ IF FileTooLarge(uploaded_file.size)
       THEN /\ errors' = 1
            /\ pc' = "returned"
            /\ UNCHANGED tmp_file
       ELSE /\ errors' = 0
            /\ tmp_file' = TRUE
            /\ pc' = "load"
  /\ result' = None
  /\ chunk_files' = 0
  /\ NewCall
  /\ UNCHANGED <<cue_sheets, vtt_run, uploaded_file>>

\* load_whisper_model and AudioSegment.from_file; either may raise.
LoadAndDecode(ok) ==
  /\ pc = "load"
  /\ IF ok
       THEN /\ effects' = {"model", "decode"}
            /\ audio' = [frames |-> uploaded_file.frames,
                         rate |-> uploaded_file.rate,
                         length |-> AudioLen(uploaded_file.frames,
                                             uploaded_file.rate)]
            /\ num_chunks' = NumChunks(uploaded_file.frames, uploaded_file.rate)
            /\ progress_bar' = <<0, 1>>
            /\ transcribed_text' = <<>>
            /\ i' = 0
            /\ pc' = "loop"
            /\ UNCHANGED raised
       ELSE /\ effects' = {"model"}
            /\ raised' = TRUE
            /\ pc' = "except"
            /\ UNCHANGED <<audio, num_chunks, progress_bar, transcribed_text, i>>
  /\ UNCHANGED <<cue_sheets, vtt_run, platform, session_state, uploaded_file, clicked, start_ms,
                 end_ms, chunk_text, tmp_file, chunk_files, calls, segments,
                 progress_log, errors, result>>

\* for i in range(num_chunks): the chunk's bounds, and process_audio_chunk
\* creates its NamedTemporaryFile.
LoopEnter ==
  /\ pc = "loop"
  /\ i < num_chunks
  /\ start_ms' = StartMs(i)
  /\ end_ms' = EndMs(i, audio.length)
  /\ chunk_files' = chunk_files + 1
  /\ pc' = "export"
  /\ UNCHANGED <<cue_sheets, vtt_run, platform, session_state, uploaded_file, clicked, effects,
                 audio, num_chunks, i, transcribed_text, chunk_text, raised,
                 tmp_file, calls, segments, progress_bar, progress_log, errors,
                 result>>

\* audio_segment.export(chunk_file.name, format="wav")
ChunkExport(ok) ==
  /\ pc = "export"
  /\ IF ok THEN pc' = "transcribe" /\ UNCHANGED raised
           ELSE pc' = "chunk_finally" /\ raised' = TRUE
  /\ UNCHANGED <<cue_sheets, vtt_run, platform, session_state, uploaded_file, clicked, effects,
                 audio, num_chunks, i, start_ms, end_ms, transcribed_text,
                 chunk_text, tmp_file, chunk_files, calls, segments,
                 progress_bar, progress_log, errors, result>>

\* The frames of audio[start_ms:end_ms]: positions are int(ms * rate / 1000).
ChunkFrames(s, e, rate) == (e * rate) \div 1000 - (s * rate) \div 1000

\* result = model.transcribe(chunk_file.name, **options)
ChunkTranscribe(ok, text) ==
  /\ pc = "transcribe"
  /\ calls' = Append(calls, [index |-> i, start_ms |-> start_ms,
                             end_ms |-> end_ms,
                             frames |-> ChunkFrames(start_ms, end_ms,
                                                    audio.rate),
                             live |-> chunk_files])
  /\ IF ok THEN /\ chunk_text' = text
                /\ segments' = Append(segments, text)
                /\ UNCHANGED raised
           ELSE /\ raised' = TRUE
                /\ UNCHANGED <<chunk_text, segments>>
  /\ pc' = "chunk_finally"
  /\ UNCHANGED <<cue_sheets, vtt_run, platform, session_state, uploaded_file, clicked, effects,
                 audio, num_chunks, i, start_ms, end_ms, transcribed_text,
                 tmp_file, chunk_files, progress_bar, progress_log, errors,
                 result>>

\* finally: try: os.unlink(chunk_file.name) except: pass.  The file is still
\* open here (the with block has not ended), so the unlink fails on Windows
\* and the failure is swallowed.
UnlinkOpenFileFails(os) == os = "nt"

ChunkFinally ==
  /\ pc = "chunk_finally"
  /\ chunk_files' = IF UnlinkOpenFileFails(platform) THEN chunk_files
                    ELSE chunk_files - 1
  /\ pc' = IF raised THEN "except" ELSE "append"
  /\ UNCHANGED <<cue_sheets, vtt_run, platform, session_state, uploaded_file, clicked, effects,
                 audio, num_chunks, i, start_ms, end_ms, transcribed_text,
                 chunk_text, raised, tmp_file, calls, segments, progress_bar,
                 progress_log, errors, result>>

\* transcribed_text += chunk_text + " ", then the progress update:
\* eta = (elapsed / progress - elapsed) if progress > 0 else 0
AppendAndReport ==
  /\ pc = "append"
  /\ transcribed_text' = AppendChunk(transcribed_text, chunk_text)
  /\ LET progress == Progress(i, num_chunks)
     IN  /\ progress_bar' = progress
         /\ progress_log' = Append(progress_log,
                                   [index |-> i, progress |-> progress,
                                    divided |-> progress[1] > 0])
  /\ i' = NextIndex(i)
  /\ pc' = "loop"
  /\ UNCHANGED <<cue_sheets, vtt_run, platform, session_state, uploaded_file, clicked, effects,
                 audio, num_chunks, start_ms, end_ms, chunk_text, raised,
                 tmp_file, chunk_files, calls, segments, errors, result>>

\* After the loop: progress_bar.progress(1.0) and
\* return transcribed_text.strip()
Complete ==
  /\ pc = "loop"
  /\ i >= num_chunks
  /\ progress_bar' = <<1, 1>>
  /\ result' = CompleteResult(transcribed_text)
  /\ pc' = "finally"
  /\ UNCHANGED <<cue_sheets, vtt_run, platform, session_state, uploaded_file, clicked, effects,
                 audio, num_chunks, i, start_ms, end_ms, transcribed_text,
                 chunk_text, raised, tmp_file, chunk_files, calls, segments,
                 progress_log, errors>>

\* except Exception as e: st.error(...); return None
Except ==
  /\ pc = "except"
  /\ errors' = errors + 1
  /\ raised' = FALSE
  /\ result' = ExceptResult(transcribed_text)
  /\ pc' = "finally"
  /\ UNCHANGED <<cue_sheets, vtt_run, platform, session_state, uploaded_file, clicked, effects,
                 audio, num_chunks, i, start_ms, end_ms, transcribed_text,
                 chunk_text, tmp_file, chunk_files, calls, segments,
                 progress_bar, progress_log>>

\* finally: os.unlink(temp_filename); the upload's file is closed by now.
Finally ==
  /\ pc = "finally"
  /\ tmp_file' = FALSE
  /\ pc' = "returned"
  /\ UNCHANGED <<cue_sheets, vtt_run, platform, session_state, uploaded_file, clicked, effects,
                 audio, num_chunks, i, start_ms, end_ms, transcribed_text,
                 chunk_text, raised, chunk_files, calls, segments,
                 progress_bar, progress_log, errors, result>>

\* Python truth of the returned value: None and "" are false.
Truthy(r) == ~r.none /\ r.text # <<>>

\* show_main_page: if transcribed_text: st.session_state.transcribed_text = ...
CallerStore ==
  /\ pc = "returned"
  /\ session_state' = IF Truthy(result)
                        THEN [session_state EXCEPT
                                !.transcribed_text = result.text]
                        ELSE session_state
  /\ pc' = "idle"
  /\ UNCHANGED <<cue_sheets, vtt_run, platform, uploaded_file, clicked, runVars>>

(***************************************************************************)
(* show_main_page: a cue sheet is uploaded, as a .vtt file or renamed to   *)
(* .vtt.txt; read_vtt_file extracts its text and the result is stored, or  *)
(* the error is shown.                                                     *)
(***************************************************************************)
VttRun(content, lib) ==
  [source |-> "file", content |-> content, lib |-> lib]
    @@ read_vtt_file(content, lib)

\* The text branch, is_vtt_file(filename).
UploadVttFile ==
  /\ pc = "idle"
  /\ \E content \in cue_sheets, lib \in LibOutcomes :
       vtt_run' = VttRun(content, lib)
  /\ uploaded_file' = VttFile("vtt", vtt_run')
  /\ session_state' = ProcessUploadedFile(uploaded_file', session_state)
  /\ NoTranscription
  /\ UNCHANGED <<cue_sheets, platform, pc>>

\* The branch of names with ".vtt.txt".
UploadRenamedVttFile ==
  /\ pc = "idle"
  /\ \E content \in cue_sheets, lib \in LibOutcomes :
       vtt_run' = VttRun(content, lib)
  /\ uploaded_file' = VttFile("vtt_renamed", vtt_run')
  /\ session_state' = ProcessUploadedFile(uploaded_file', session_state)
  /\ NoTranscription
  /\ UNCHANGED <<cue_sheets, platform, pc>>

\* uploaded_file.read().decode("utf-8") raises: the file is not UTF-8.
UploadUndecodableVttFile ==
  /\ pc = "idle"
  /\ vtt_run' = [NoVttRun EXCEPT !.source = "file", !.error = TRUE]
  /\ \E kind \in {"vtt", "vtt_renamed"} :
       uploaded_file' = VttFile(kind, vtt_run')
  /\ session_state' = ProcessUploadedFile(uploaded_file', session_state)
  /\ NoTranscription
  /\ UNCHANGED <<cue_sheets, platform, pc>>

\* The pasted-text handler on one text: what it extracts and by which path.
use_this_text(pasted_text) ==
  IF IsVttFormat(pasted_text)
    THEN [path |-> "fallback", text |-> PastedCueText(pasted_text)]
    ELSE [path |-> "raw", text |-> pasted_text]

(***************************************************************************)
(* show_main_page: text is pasted and "use this text" is pressed.  The     *)
(* run passes the uploader, which sets file_type from the name of the file *)
(* in it, the handler stores the text and st.rerun() ends the run before   *)
(* the file is taken.                                                      *)
(***************************************************************************)
UseThisText ==
  /\ pc = "idle"
  /\ \E pasted_text \in cue_sheets :
       /\ pasted_text # <<>>
       /\ vtt_run' = [source |-> "paste", content |-> pasted_text,
                      lib |-> "none", warnings |-> 0, error |-> FALSE]
                     @@ use_this_text(pasted_text)
  /\ session_state' =
       [session_state EXCEPT
          !.file_type = FileTypeByName(uploaded_file.kind, @),
          !.transcribed_text = vtt_run'.text]
  /\ pc' = "rerun"
  /\ NoTranscription
  /\ UNCHANGED <<cue_sheets, platform, uploaded_file>>

\* The run st.rerun() asked for: no button is pressed, the file in the
\* uploader is taken again, a cue sheet is read again by read_vtt_file.
Rerun ==
  /\ pc = "rerun"
  /\ session_state' = ProcessUploadedFile(uploaded_file, session_state)
  /\ vtt_run' = uploaded_file.read
  /\ pc' = "idle"
  /\ NoTranscription
  /\ UNCHANGED <<cue_sheets, platform, uploaded_file>>

(***************************************************************************)
(* show_main_page: a Word file, or a Word file renamed to .txt, is         *)
(* uploaded.                                                               *)
(***************************************************************************)
\* read_word_file returns the text (ok) or raises.
UploadWordFile(ok, text_content) ==
  /\ pc = "idle"
  /\ uploaded_file' = ReadableFile("word", ok, text_content)
  /\ session_state' = ProcessUploadedFile(uploaded_file', session_state)
  /\ vtt_run' = NoVttRun
  /\ NoTranscription
  /\ UNCHANGED <<cue_sheets, platform, pc>>

\* except: text_content = uploaded_file.read().decode("utf-8"): a renamed
\* file that is no Word file is stored as the text it decodes to.
UploadRenamedWordFile(word_ok, decode_ok, text_content) ==
  /\ pc = "idle"
  /\ uploaded_file' =
       ReadableFile("word_renamed", word_ok \/ decode_ok, text_content)
  /\ session_state' = ProcessUploadedFile(uploaded_file', session_state)
  /\ vtt_run' = NoVttRun
  /\ NoTranscription
  /\ UNCHANGED <<cue_sheets, platform, pc>>

(***************************************************************************)
(* show_main_page without a file in the uploader.  The clear button sits   *)
(* inside "if uploaded_file is None and not transcribed_text:" and there   *)
(* inside "if transcribed_text:".                                          *)
(***************************************************************************)
ClearButtonShown(file_uploaded, state) ==
  /\ ~file_uploaded /\ state.transcribed_text = <<>>
  /\ state.transcribed_text # <<>>

\* The file is taken out of the uploader and the page runs with no file;
\* the clear button can be pressed when it is shown.
RerunWithoutFile ==
  /\ pc = "idle"
  /\ uploaded_file' = NoFile
  /\ \E clear \in {FALSE, ClearButtonShown(FALSE, session_state)} :
       session_state' =
         IF clear THEN [session_state EXCEPT !.transcribed_text = <<>>,
                                             !.minutes = <<>>]
         ELSE session_state
  /\ vtt_run' = NoVttRun
  /\ NoTranscription
  /\ UNCHANGED <<cue_sheets, platform, pc>>

(***************************************************************************)
(* show_main_page: the minutes section.  It is shown when a transcript is  *)
(* stored; without an API key it shows an error; the button calls          *)
(* generate_minutes_with_gemini, which returns the minutes (ok) or raises. *)
(***************************************************************************)
GenerateMinutes(ok, selected_template_name) ==
  /\ pc = "idle"
  /\ ~ReturnsEarly(uploaded_file)
  /\ LET state == ProcessUploadedFile(uploaded_file, session_state)
         templates == get_all_prompt_templates(state.custom_prompts)
     IN  /\ state.transcribed_text # <<>>
         /\ selected_template_name \in DOMAIN templates
         /\ IF state.api_key # <<>> /\ ok
              THEN \E minutes \in generate_minutes_with_gemini(
                                    state.transcribed_text,
                                    templates[selected_template_name]) :
                     session_state' = [state EXCEPT !.minutes = minutes]
              ELSE session_state' = state
  /\ NoTranscription
  /\ UNCHANGED <<cue_sheets, vtt_run, platform, uploaded_file, pc>>

\* The minutes are shown with a text area to edit them; the save button
\* stores what the text area holds.
SaveEditedMinutes(edited_minutes) ==
  /\ pc = "idle"
  /\ ~ReturnsEarly(uploaded_file)
  /\ LET state == ProcessUploadedFile(uploaded_file, session_state)
     IN  /\ state.transcribed_text # <<>>
         /\ state.api_key # <<>>
         /\ state.minutes # <<>>
         /\ session_state' = [state EXCEPT !.minutes = edited_minutes]
  /\ NoTranscription
  /\ UNCHANGED <<cue_sheets, vtt_run, platform, uploaded_file, pc>>

(***************************************************************************)
(* show_settings_page.                                                     *)
(***************************************************************************)
SaveModel(selected_model) ==
  /\ pc = "idle"
  /\ session_state' = [session_state EXCEPT !.gemini_model = selected_model]
  /\ NoTranscription
  /\ UNCHANGED <<cue_sheets, vtt_run, platform, uploaded_file, pc>>

SaveApiKey(api_key_input) ==
  /\ pc = "idle"
  /\ session_state' = [session_state EXCEPT !.api_key = api_key_input]
  /\ NoTranscription
  /\ UNCHANGED <<cue_sheets, vtt_run, platform, uploaded_file, pc>>

ClearApiKey ==
  /\ pc = "idle"
  /\ session_state' = [session_state EXCEPT !.api_key = <<>>]
  /\ NoTranscription
  /\ UNCHANGED <<cue_sheets, vtt_run, platform, uploaded_file, pc>>

\* The add button: both fields filled in, no default name, no name in use.
AddPrompt(new_prompt_name, new_prompt_content) ==
  /\ pc = "idle"
  /\ session_state' =
       IF /\ new_prompt_name # <<>> /\ new_prompt_content # <<>>
          /\ new_prompt_name \notin DOMAIN get_default_prompt_templates
          /\ new_prompt_name \notin DOMAIN session_state.custom_prompts
         THEN [session_state EXCEPT !.custom_prompts =
                 SetItem(@, new_prompt_name, new_prompt_content)]
         ELSE session_state
  /\ NoTranscription
  /\ UNCHANGED <<cue_sheets, vtt_run, platform, uploaded_file, pc>>

\* The edit button of a saved prompt: st.session_state[f"editing_{name}"].
EditPrompt(name) ==
  /\ pc = "idle"
  /\ name \in DOMAIN session_state.custom_prompts
  /\ session_state' = [session_state EXCEPT !.editing = @ \cup {name}]
  /\ NoTranscription
  /\ UNCHANGED <<cue_sheets, vtt_run, platform, uploaded_file, pc>>

\* The save button of the edit area.
SaveEditedPrompt(name, edited_content) ==
  /\ pc = "idle"
  /\ name \in DOMAIN session_state.custom_prompts
  /\ name \in session_state.editing
  /\ session_state' = [session_state EXCEPT
                         !.custom_prompts = SetItem(@, name, edited_content),
                         !.editing = @ \ {name}]
  /\ NoTranscription
  /\ UNCHANGED <<cue_sheets, vtt_run, platform, uploaded_file, pc>>

CancelEditPrompt(name) ==
  /\ pc = "idle"
  /\ name \in DOMAIN session_state.custom_prompts
  /\ name \in session_state.editing
  /\ session_state' = [session_state EXCEPT !.editing = @ \ {name}]
  /\ NoTranscription
  /\ UNCHANGED <<cue_sheets, vtt_run, platform, uploaded_file, pc>>

DeletePrompt(name) ==
  /\ pc = "idle"
  /\ name \in DOMAIN session_state.custom_prompts
  /\ session_state' = [session_state EXCEPT !.custom_prompts =
                         DelItem(@, name)]
  /\ NoTranscription
  /\ UNCHANGED <<cue_sheets, vtt_run, platform, uploaded_file, pc>>

\* st.session_state.custom_prompts.update(imported_data)
ImportPrompts(imported_data) ==
  /\ pc = "idle"
  /\ session_state' = [session_state EXCEPT !.custom_prompts =
                         Update(@, imported_data)]
  /\ NoTranscription
  /\ UNCHANGED <<cue_sheets, vtt_run, platform, uploaded_file, pc>>

\* json.loads raises JSONDecodeError: an error is shown.
ImportInvalidJson ==
  /\ pc = "idle"
  /\ NoTranscription
  /\ UNCHANGED <<cue_sheets, vtt_run, platform, session_state, uploaded_file, pc>>

Next ==
  \/ UploadTextFile
  \/ UploadAudioFile
  \/ ClickTranscribe
  \/ \E ok \in BOOLEAN : LoadAndDecode(ok)
  \/ LoopEnter
  \/ \E ok \in BOOLEAN : ChunkExport(ok)
  \/ \E ok \in BOOLEAN, text \in SegTexts : ChunkTranscribe(ok, text)
  \/ ChunkFinally
  \/ AppendAndReport
  \/ Complete
  \/ Except
  \/ Finally
  \/ CallerStore

Spec == Init /\ [][Next]_vars

NextCue ==
  \/ UploadTextFile
  \/ UploadVttFile
  \/ UploadRenamedVttFile
  \/ UploadUndecodableVttFile
  \/ UseThisText
  \/ Rerun

SpecCue == InitCue /\ [][NextCue]_vars

\* The pages without the transcription run and without cue sheets: files
\* that are read in one step, the minutes and the settings.
SettingsActions ==
  \/ \E selected_model \in GeminiModels : SaveModel(selected_model)
  \/ \E api_key_input \in ApiKeys : SaveApiKey(api_key_input)
  \/ ClearApiKey
  \/ \E name \in PromptNames, content \in PromptBodies :
       AddPrompt(name, content)
  \/ \E name \in PromptNames : EditPrompt(name)
  \/ \E name \in PromptNames, content \in PromptBodies :
       SaveEditedPrompt(name, content)
  \/ \E name \in PromptNames : CancelEditPrompt(name)
  \/ \E name \in PromptNames : DeletePrompt(name)
  \/ \E imported_data \in ImportedData : ImportPrompts(imported_data)
  \/ ImportInvalidJson

NextPage ==
  \/ UploadTextFile
  \/ \E ok \in BOOLEAN, text \in WordTexts : UploadWordFile(ok, text)
  \/ \E word_ok \in BOOLEAN, decode_ok \in BOOLEAN, text \in WordTexts :
       UploadRenamedWordFile(word_ok, decode_ok, text)
  \/ RerunWithoutFile
  \/ \E ok \in BOOLEAN, name \in PromptNames : GenerateMinutes(ok, name)
  \/ \E edited_minutes \in EditedMinutes : SaveEditedMinutes(edited_minutes)
  \/ SettingsActions

SpecPage == Init /\ [][NextPage]_vars

\* The transcription run together with the minutes section that follows it
\* on the page.
NextRun ==
  \/ Next
  \/ \E api_key_input \in ApiKeys : SaveApiKey(api_key_input)
  \/ \E ok \in BOOLEAN, name \in PromptNames : GenerateMinutes(ok, name)
  \/ \E edited_minutes \in EditedMinutes : SaveEditedMinutes(edited_minutes)

SpecRun == Init /\ [][NextRun]_vars

(***************************************************************************)
(* Vocabulary of the claims about the transcription run.                   *)
(***************************************************************************)
\* transcribe_audio has left its loop normally and computed a transcript.
Completed == clicked /\ ~result.none /\ pc \in {"finally", "returned", "idle"}

\* A model.transcribe call raised: it was made and returned no text.
TranscribeFailed == Len(segments) < Len(calls)

WindowMs == chunk_size_sec * 1000

\* " ".join(texts)
JoinSpace(texts) == JoinWith(texts, Space)

\* a / b < c / d for positive denominators
FracLess(x, y) == x[1] * y[2] < y[1] * x[2]

(***************************************************************************)
(* C1: for an audio stream with duration_seconds > 0, the chunk intervals  *)
(* [start_ms, end_ms) of the run are contiguous (each starts where the     *)
(* previous one ended, the first at 0), pairwise non-overlapping, and once *)
(* the run has completed their union is [0, len(audio)).                   *)
(***************************************************************************)
C1_Coverage ==
  audio.frames > 0 =>
    /\ \A j \in 1..Len(calls) :
         /\ calls[j].start_ms <= calls[j].end_ms
         /\ calls[j].start_ms = IF j = 1 THEN 0 ELSE calls[j - 1].end_ms
    /\ \A j, k \in 1..Len(calls) :
         j < k => calls[j].end_ms <= calls[k].start_ms
    /\ Completed =>
         /\ Len(calls) >= 1
         /\ calls[1].start_ms = 0
         /\ calls[Len(calls)].end_ms = audio.length

C1_Witness ==
  /\ Completed
  /\ Len(calls) = 3
  /\ calls[3].start_ms = 20000
  /\ calls[3].end_ms = 25000

(***************************************************************************)
(* C2: a completed run processes ceil(duration_seconds / window_seconds)   *)
(* chunks, chunk i from i * 10000 ms to min((i + 1) * 10000, len(audio));  *)
(* a 25 second stream yields [0,10000), [10000,20000), [20000,25000).      *)
(***************************************************************************)
\* The least n with n windows covering the frames: ceil(frames / window).
CeilWindows(frames, rate) ==
  CHOOSE n \in 0..(frames \div (chunk_size_sec * rate) + 1) :
    /\ n * chunk_size_sec * rate >= frames
    /\ (n - 1) * chunk_size_sec * rate < frames

Bounds(call) == <<call.start_ms, call.end_ms>>

C2_ChunkCount ==
  Completed =>
    /\ Len(calls) = CeilWindows(audio.frames, audio.rate)
    /\ \A j \in 1..Len(calls) :
         /\ calls[j].start_ms = (j - 1) * WindowMs
         /\ calls[j].end_ms = Min(j * WindowMs, audio.length)
    /\ audio.frames = 25 * audio.rate =>
         /\ Len(calls) = 3
         /\ Bounds(calls[1]) = <<0, 10000>>
         /\ Bounds(calls[2]) = <<10000, 20000>>
         /\ Bounds(calls[3]) = <<20000, 25000>>

C2_Witness ==
  /\ Completed
  /\ audio.frames = 25 * audio.rate
  /\ Len(calls) = 3

(***************************************************************************)
(* C3: for duration_seconds > 0 no chunk handed to model.transcribe is     *)
(* zero-length, and the last chunk of a completed run is                   *)
(* len(audio) mod 10000 ms long, or a full window when that is 0.          *)
(***************************************************************************)
C3_NoZeroLengthChunk ==
  audio.frames > 0 =>
    /\ \A j \in 1..Len(calls) :
         /\ calls[j].end_ms > calls[j].start_ms
         /\ calls[j].frames > 0
    /\ (Completed /\ Len(calls) >= 1) =>
         LET last == calls[Len(calls)]
         IN  last.end_ms - last.start_ms =
               IF audio.length % WindowMs = 0 THEN WindowMs
               ELSE audio.length % WindowMs

(***************************************************************************)
(* C4: model.transcribe is invoked once per chunk, one call at a time and  *)
(* in increasing chunk order: the k-th call is for chunk k-1, it starts    *)
(* only when the k-1 earlier calls have returned and been merged, and a    *)
(* completed run has called it for every chunk.                            *)
(***************************************************************************)
C4_SequentialOncePerChunk ==
  /\ \A j \in 1..Len(calls) : calls[j].index = j - 1
  /\ Len(calls) <= num_chunks
  /\ Len(segments) <= Len(calls)
  /\ Len(calls) <= Len(segments) + 1
  /\ pc = "transcribe" =>
       /\ Len(calls) = i
       /\ Len(segments) = i
       /\ Len(progress_log) = i
  /\ Completed => /\ Len(calls) = num_chunks
                  /\ Len(segments) = num_chunks

C4_Witness ==
  /\ pc = "transcribe"
  /\ i = 2
  /\ Len(calls) = 2

(***************************************************************************)
(* C5 as stated: the transcript of a completed run is the chunk texts      *)
(* joined with a single space in chunk order, only the trailing space      *)
(* trimmed, so that an empty or space-led first text keeps its place.      *)
(***************************************************************************)
C5_Original ==
  Completed => result.text = RStrip(JoinSpace(segments))

(***************************************************************************)
(* C5 amended: the transcript of a completed run is the chunk texts joined *)
(* with a single space in chunk order, with the whitespace at both ends of *)
(* the joined text trimmed.                                                *)
(***************************************************************************)
C5_MergeStripped ==
  Completed => result.text = Strip(JoinSpace(segments))

C5_Witness ==
  /\ Completed
  /\ segments = << <<" ", "a">>, <<>>, <<"b">> >>
  /\ result.text = <<"a", " ", " ", "b">>

(***************************************************************************)
(* C6: if a model.transcribe call fails at chunk k, the run reports one    *)
(* error and returns None, no later chunk is transcribed, and the caller   *)
(* leaves st.session_state.transcribed_text as it was.                     *)
(***************************************************************************)
C6_FailFast ==
  /\ [](TranscribeFailed =>
          /\ Len(calls) = i + 1
          /\ pc \in {"chunk_finally", "except", "finally", "returned", "idle"}
          /\ pc \in {"finally", "returned", "idle"} =>
               (result.none /\ errors = 1))
  /\ [][(TranscribeFailed /\ pc # "idle") =>
          /\ calls' = calls
          /\ segments' = segments
          /\ session_state'.transcribed_text = session_state.transcribed_text
       ]_vars

C6_Witness ==
  /\ TranscribeFailed
  /\ pc = "idle"
  /\ Len(calls) = 2
  /\ num_chunks = 3
  /\ segments = << <<"b">> >>
  /\ session_state.transcribed_text = <<"o", "l", "d">>

(***************************************************************************)
(* C7: at most one per-chunk temporary file exists at any time, and none   *)
(* exists outside process_audio_chunk, whether it returned or raised.      *)
(***************************************************************************)
InChunk == pc \in {"export", "transcribe", "chunk_finally"}

C7_ScopedChunkFile ==
  /\ chunk_files <= 1
  /\ ~InChunk => chunk_files = 0

(***************************************************************************)
(* C8: a file of more than 200 MB is rejected before anything is done with *)
(* it (no temporary file, no model load, no decoding, no transcription     *)
(* call; None is returned and nothing is stored), and a file of at most    *)
(* 200 MB passes the guard.                                                *)
(***************************************************************************)
LimitBytes == 200 * 1024 * 1024

Rejected ==
  /\ pc \in {"returned", "idle"}
  /\ ~tmp_file
  /\ effects = {}
  /\ audio = NoAudio
  /\ calls = <<>>
  /\ chunk_files = 0
  /\ result.none
  /\ errors = 1

C8_SizeGuard ==
  /\ [](clicked =>
         /\ uploaded_file.size > LimitBytes => Rejected
         /\ uploaded_file.size <= LimitBytes =>
              \/ pc = "load" /\ tmp_file
              \/ "model" \in effects)
  /\ [][(clicked' /\ uploaded_file'.size > LimitBytes) =>
         session_state'.transcribed_text = session_state.transcribed_text]_vars

C8_Witness ==
  /\ clicked
  /\ uploaded_file.size = LimitBytes + 1
  /\ pc = "idle"
  /\ session_state.transcribed_text = <<"o", "l", "d">>

C8_WitnessAccepted ==
  /\ clicked
  /\ uploaded_file.size = LimitBytes
  /\ Completed

(***************************************************************************)
(* C9: progress is reported once after each chunk that completed, as       *)
(* (i + 1) / num_chunks: the fractions are strictly increasing, lie in     *)
(* (0, 1], are 1 exactly for the last chunk, none is reported for a chunk  *)
(* whose call failed, and the ETA is always computed by the division, by   *)
(* a fraction greater than 0.                                              *)
(***************************************************************************)
C9_Progress ==
  /\ Len(progress_log) <= Len(segments)
  /\ Len(segments) <= Len(progress_log) + 1
  /\ pc \in {"loop", "except", "finally", "returned", "idle"} =>
       Len(progress_log) = Len(segments)
  /\ \A j \in 1..Len(progress_log) :
       LET p == progress_log[j].progress
       IN  /\ progress_log[j].index = j - 1
           /\ p = <<j, num_chunks>>
           /\ p[2] > 0
           /\ FracLess(<<0, 1>>, p)
           /\ ~FracLess(<<1, 1>>, p)
           /\ (p[1] = p[2]) <=> (j = num_chunks)
           /\ progress_log[j].divided
  /\ \A j, k \in 1..Len(progress_log) :
       j < k => FracLess(progress_log[j].progress, progress_log[k].progress)
  /\ Completed => Len(progress_log) = num_chunks

C9_Witness ==
  /\ Completed
  /\ Len(progress_log) = 3
  /\ progress_log[3].progress = <<3, 3>>

C9_WitnessFailed ==
  /\ TranscribeFailed
  /\ pc = "idle"
  /\ Len(calls) = 2
  /\ Len(progress_log) = 1

(***************************************************************************)
(* Vocabulary of the claims about the cue text extraction.                 *)
(***************************************************************************)
\* The extraction ran the line classification and produced a text.
LineClassified ==
  /\ vtt_run.source \in {"file", "paste"}
  /\ vtt_run.path = "fallback"
  /\ ~vtt_run.error

\* The trimmed lines of a text.
TrimmedLines(content) ==
  LET lines == Split(content, "\n")
  IN  [k \in 1..Len(lines) |-> Strip(lines[k])]

IsArrowLine(line) == Contains(line, ArrowToken)

\* Line k lies in a cue body: a line with "-->" precedes it and no blank
\* line lies between the last such line and line k.
InCueBody(lines, k) ==
  \E m \in 1..(k - 1) :
    /\ IsArrowLine(lines[m])
    /\ \A n \in (m + 1)..(k - 1) : lines[n] # <<>>

\* Line k is retained as cue text.
Retained(lines, k) ==
  /\ InCueBody(lines, k)
  /\ ~IsArrowLine(lines[k])
  /\ lines[k] # <<>>
  /\ ~IsDigit(lines[k])
  /\ ~IsMetadata(lines[k])
  /\ RemoveTags(lines[k]) # <<>>

RECURSIVE RetainedFrom(_, _)
\* The tag-stripped retained lines from line k on, in document order.
RetainedFrom(lines, k) ==
  IF k > Len(lines) THEN <<>>
  ELSE IF Retained(lines, k)
    THEN <<RemoveTags(lines[k])>> \o RetainedFrom(lines, k + 1)
  ELSE RetainedFrom(lines, k + 1)

HelloWorldSecondLine ==
  <<"H", "e", "l", "l", "o", " ", "w", "o", "r", "l", "d", " ", "S", "e",
    "c", "o", "n", "d", " ", "l", "i", "n", "e">>
SecondLineHelloWorld ==
  <<"S", "e", "c", "o", "n", "d", " ", "l", "i", "n", "e", " ", "H", "e",
    "l", "l", "o", " ", "w", "o", "r", "l", "d">>
SecondLineTwice ==
  <<"S", "e", "c", "o", "n", "d", " ", "l", "i", "n", "e", " ", "S", "e",
    "c", "o", "n", "d", " ", "l", "i", "n", "e">>

(***************************************************************************)
(* C10: the line classification (the fallback of read_vtt_file and the     *)
(* pasted-text path) outputs every retained, tag-stripped cue line, once   *)
(* per occurrence and in document order, joined with a single space; the   *)
(* two cues of scenario 5 give "Hello world Second line", and with the     *)
(* later cue first they give "Second line Hello world".                    *)
(***************************************************************************)
C10_LineClassificationOutput ==
  LineClassified =>
    /\ vtt_run.text =
         JoinSpace(RetainedFrom(TrimmedLines(vtt_run.content), 1))
    /\ vtt_run.content = Scenario5Doc => vtt_run.text = HelloWorldSecondLine
    /\ vtt_run.content = ReversedDoc => vtt_run.text = SecondLineHelloWorld
    /\ session_state.transcribed_text = vtt_run.text

C10_Witness ==
  /\ LineClassified
  /\ vtt_run.source = "file"
  /\ vtt_run.content = Scenario5Doc
  /\ vtt_run.text = HelloWorldSecondLine

C10_WitnessPasted ==
  /\ LineClassified
  /\ vtt_run.source = "paste"
  /\ vtt_run.content = Scenario5Doc
  /\ vtt_run.text = HelloWorldSecondLine

C10_WitnessRepeated ==
  /\ LineClassified
  /\ vtt_run.content =
       JoinWith(<<HeaderToken, Timing1, SecondLine, SecondLine>>, NewLine)
  /\ vtt_run.text = SecondLineTwice

(***************************************************************************)
(* Vocabulary of the claims about single lines of a cue sheet.             *)
(***************************************************************************)
\* <<in_cue, text_lines>> after the first k lines of the content.
StateAfter(content, k) ==
  ClassifyLines(<<FALSE, <<>> >>, SubSeq(Split(content, "\n"), 1, k))

\* The lines of the content that satisfy Drop are taken out.
WithoutLines(content, Drop(_)) ==
  JoinWith(SelectSeq(Split(content, "\n"), LAMBDA l : ~Drop(Strip(l))),
           NewLine)

IsDigitsLine(line) == line # <<>> /\ \A k \in 1..Len(line) : line[k] \in Digits

IsMetadataLine(line) ==
  \E prefix \in MetadataPrefixes :
    Len(line) >= Len(prefix) /\ SubSeq(line, 1, Len(prefix)) = prefix

\* A metadata line without "-->".
IsPlainMetadataLine(line) == IsMetadataLine(line) /\ ~IsArrowLine(line)

(***************************************************************************)
(* C11: in the line classification a line is emitted only inside a cue     *)
(* body.  A line with "-->" starts a cue body and is not emitted, a blank  *)
(* line ends the cue body, every other line leaves the inside-a-cue state  *)
(* as it was, so the state before line k is "a '-->' line precedes line k  *)
(* with no blank line in between"; a line read outside a cue body adds     *)
(* nothing to the output.                                                  *)
(***************************************************************************)
C11_OnlyInsideCueBody ==
  LineClassified =>
    LET lines == TrimmedLines(vtt_run.content)
    IN  /\ \A k \in 1..Len(lines) :
             LET before == StateAfter(vtt_run.content, k - 1)
                 after == StateAfter(vtt_run.content, k)
             IN  /\ before[1] = InCueBody(lines, k)
                 /\ IsArrowLine(lines[k]) =>
                      after[1] /\ after[2] = before[2]
                 /\ lines[k] = <<>> =>
                      ~after[1] /\ after[2] = before[2]
                 /\ (lines[k] # <<>> /\ ~IsArrowLine(lines[k])) =>
                      after[1] = before[1]
                 /\ ~before[1] => after[2] = before[2]
                 /\ after[2] # before[2] =>
                      /\ InCueBody(lines, k)
                      /\ after[2] = Append(before[2], RemoveTags(lines[k]))
        /\ vtt_run.text =
             JoinSpace(StateAfter(vtt_run.content, Len(lines))[2])

\* A text line before the first "-->" line is left out, the line of the
\* cue body is emitted.
C11_Witness ==
  /\ LineClassified
  /\ vtt_run.content =
       JoinWith(<<HeaderToken, HelloLine, Timing1, SecondLine>>, NewLine)
  /\ vtt_run.text = SecondLine

\* A text line after the blank line that ended the cue body is left out.
C11_WitnessAfterBlank ==
  /\ LineClassified
  /\ vtt_run.content =
       JoinWith(<<HeaderToken, Timing1, <<>>, HelloLine>>, NewLine)
  /\ vtt_run.text = <<>>

(***************************************************************************)
(* C12: a line of digits only is discarded and leaves the inside-a-cue     *)
(* state as it was: the state after it equals the state before it, the     *)
(* output is the output of the same content with its digits-only lines     *)
(* taken out, and a text line that follows it in a cue body is emitted.    *)
(***************************************************************************)
C12_DigitsLineDiscarded ==
  LineClassified =>
    LET lines == TrimmedLines(vtt_run.content)
    IN  /\ \A k \in 1..Len(lines) :
             IsDigitsLine(lines[k]) =>
               /\ StateAfter(vtt_run.content, k) =
                    StateAfter(vtt_run.content, k - 1)
               /\ (/\ InCueBody(lines, k)
                   /\ k < Len(lines)
                   /\ lines[k + 1] = SecondLine) =>
                    StateAfter(vtt_run.content, k + 1)[2] =
                      Append(StateAfter(vtt_run.content, k - 1)[2],
                             SecondLine)
        /\ vtt_run.text =
             ExtractCueText(WithoutLines(vtt_run.content, IsDigitsLine))

C12_Witness ==
  /\ LineClassified
  /\ vtt_run.content =
       JoinWith(<<HeaderToken, Timing1, <<"1">>, SecondLine>>, NewLine)
  /\ vtt_run.text = SecondLine

(***************************************************************************)
(* C13: a line whose trimmed content starts with WEBVTT, NOTE, STYLE or    *)
(* REGION is discarded wherever it stands, inside a cue body too, and      *)
(* does not end the cue body: it adds nothing to the output and a cue body *)
(* it stands in goes on after it.  When the line holds no "-->" the state  *)
(* after it equals the state before it, and the output is the output of    *)
(* the same content with these lines taken out.  The cue line "NOTE this   *)
(* was cut" adds nothing.                                                  *)
(***************************************************************************)
C13_MetadataLineDiscarded ==
  LineClassified =>
    LET lines == TrimmedLines(vtt_run.content)
    IN  /\ \A k \in 1..Len(lines) :
             IsMetadataLine(lines[k]) =>
               LET before == StateAfter(vtt_run.content, k - 1)
                   after == StateAfter(vtt_run.content, k)
               IN  /\ after[2] = before[2]
                   /\ before[1] => after[1]
                   /\ ~IsArrowLine(lines[k]) => after = before
        /\ vtt_run.text =
             ExtractCueText(WithoutLines(vtt_run.content,
                                         IsPlainMetadataLine))
        /\ vtt_run.content =
             JoinWith(<<HeaderToken, Timing1, NoteLine, SecondLine>>,
                      NewLine) => vtt_run.text = SecondLine

C13_Witness ==
  /\ LineClassified
  /\ vtt_run.content =
       JoinWith(<<HeaderToken, Timing1, NoteLine, SecondLine>>, NewLine)
  /\ session_state.transcribed_text = SecondLine

(***************************************************************************)
(* Vocabulary of the claims about read_vtt_file as a whole.                *)
(***************************************************************************)
\* read_vtt_file ran on decodable content.
VttFileRead == vtt_run.source = "file" /\ vtt_run.path # "none"

\* The content begins with the header token.
BeginsWithHeader(content) ==
  /\ Len(content) >= Len(HeaderToken)
  /\ SubSeq(content, 1, Len(HeaderToken)) = HeaderToken

\* The content carries the header: the header token is the first thing in
\* it after a byte order mark and white space, which is also what the
\* pasted-text handler takes for a cue sheet (byte order mark apart).
CarriesHeader(content) ==
  LET unmarked == IF content # <<>> /\ Head(content) = "U+FEFF"
                    THEN Tail(content) ELSE content
      trimmed == Strip(unmarked)
  IN  /\ Len(trimmed) >= Len(HeaderToken)
      /\ SubSeq(trimmed, 1, Len(HeaderToken)) = HeaderToken

\* webvtt.read_buffer raised on the content.
LibRaised ==
  /\ VttFileRead
  /\ \/ vtt_run.lib = "raises"
     \/ vtt_run.lib = "parsed" /\ ~LibValid(vtt_run.content)

\* read_vtt_file raised the format error.
FormatError == VttFileRead /\ vtt_run.error /\ vtt_run.path = "fallback"

HelloWorld ==
  <<"H", "e", "l", "l", "o", " ", "w", "o", "r", "l", "d">>

(***************************************************************************)
(* C14: when webvtt.read_buffer raises, read_vtt_file does not pass the    *)
(* failure on: it shows one warning and runs the line classification on    *)
(* the same content, and its outcome is the outcome of that path, the      *)
(* extracted text (which is stored) or the format error for a content      *)
(* without header.                                                         *)
(***************************************************************************)
C14_LibraryFailureFallsBack ==
  LibRaised =>
    /\ vtt_run.path = "fallback"
    /\ vtt_run.warnings = 1
    /\ vtt_run.error <=> ~BeginsWithHeader(vtt_run.content)
    /\ ~vtt_run.error =>
         /\ vtt_run.text = ExtractCueText(vtt_run.content)
         /\ session_state.transcribed_text = vtt_run.text

C14_Witness ==
  /\ LibRaised
  /\ vtt_run.lib = "raises"
  /\ vtt_run.content = JoinWith(<<HeaderToken, Timing1, HelloLine>>, NewLine)
  /\ vtt_run.warnings = 1
  /\ vtt_run.text = HelloWorld

\* The library raises on a content without header, and so does the
\* line classification path.
C14_WitnessNoHeader ==
  /\ LibRaised
  /\ vtt_run.lib = "parsed"
  /\ vtt_run.content = JoinWith(<<Timing1, HelloLine>>, NewLine)
  /\ vtt_run.warnings = 1
  /\ FormatError

(***************************************************************************)
(* C15: read_vtt_file raises the format error only when the structured     *)
(* path gave no result and the content has no header token: a decodable    *)
(* content that carries the WEBVTT header always yields a text, possibly   *)
(* the empty one, and never the format error.                              *)
(***************************************************************************)
C15_FormatErrorOnlyWithoutHeader ==
  VttFileRead =>
    /\ CarriesHeader(vtt_run.content) => ~vtt_run.error
    /\ vtt_run.error =>
         /\ ~CarriesHeader(vtt_run.content)
         /\ vtt_run.path = "fallback"

\* What the code keeps of it: the format error is raised exactly on the
\* fallback path for a content whose first characters are not WEBVTT.
C15_FormatErrorOnlyWithoutLeadingHeader ==
  VttFileRead =>
    /\ BeginsWithHeader(vtt_run.content) =>
         ~vtt_run.error /\ session_state.transcribed_text = vtt_run.text
    /\ vtt_run.error =>
         /\ ~BeginsWithHeader(vtt_run.content)
         /\ vtt_run.path = "fallback"
         /\ vtt_run.lib # "unavailable" => vtt_run.warnings = 1

\* A header with nothing after it: the empty text, not the format error.
C15_Witness ==
  /\ VttFileRead
  /\ vtt_run.content = HeaderToken
  /\ vtt_run.lib = "raises"
  /\ ~vtt_run.error
  /\ vtt_run.text = <<>>

C15_WitnessError ==
  /\ FormatError
  /\ vtt_run.lib = "unavailable"
  /\ vtt_run.content = SecondLine

(***************************************************************************)
(* C16: on the cue sheet of scenario 5, read_vtt_file with a library that  *)
(* always raises returns what the structured path returns: both give       *)
(* "Hello world Second line".                                              *)
(***************************************************************************)
C16_FallbackEqualsStructured ==
  (VttFileRead /\ vtt_run.content = Scenario5Doc) =>
    /\ ~vtt_run.error
    /\ vtt_run.text = HelloWorldSecondLine
    /\ read_vtt_file(Scenario5Doc, "parsed").path = "structured"
    /\ read_vtt_file(Scenario5Doc, "raises").path = "fallback"
    /\ read_vtt_file(Scenario5Doc, "raises").text =
         read_vtt_file(Scenario5Doc, "parsed").text

C16_Witness ==
  /\ VttFileRead
  /\ vtt_run.content = Scenario5Doc
  /\ vtt_run.lib = "raises"
  /\ vtt_run.path = "fallback"
  /\ vtt_run.text = StructuredText(LibCaptions(Scenario5Doc))

C16_WitnessStructured ==
  /\ VttFileRead
  /\ vtt_run.content = Scenario5Doc
  /\ vtt_run.lib = "parsed"
  /\ vtt_run.path = "structured"
  /\ vtt_run.text = ExtractCueText(Scenario5Doc)

(***************************************************************************)
(* C17: read_vtt_file run again on a text it extracted raises the format   *)
(* error: no extracted text begins with the header token.                  *)
(***************************************************************************)
C17_OutputRejected ==
  (VttFileRead /\ ~vtt_run.error) =>
    /\ ~BeginsWithHeader(vtt_run.text)
    /\ read_vtt_file(vtt_run.text, vtt_run.lib).error

\* The line classification alone already extracts a text that begins with
\* the header token.
C17_LineClassifiedOutputRejected ==
  (VttFileRead /\ LineClassified) => ~BeginsWithHeader(vtt_run.text)

(***************************************************************************)
(* Vocabulary of the claims about the stored transcript and the prompts.   *)
(***************************************************************************)
TranscriptChanges ==
  session_state'.transcribed_text # session_state.transcribed_text

\* transcribe_audio returned a non-empty text and the caller stored it.
TranscriptionStored ==
  /\ pc = "returned" /\ pc' = "idle"
  /\ ~result.none /\ result.text # <<>>
  /\ session_state'.transcribed_text = result.text

\* read_vtt_file or the pasted-text handler produced a text that was stored.
CueTextStored ==
  /\ vtt_run'.source \in {"file", "paste"}
  /\ ~vtt_run'.error
  /\ session_state'.transcribed_text = vtt_run'.text

\* The run after st.rerun() stored the text of the file in the uploader
\* again.
FileTextStoredAgain ==
  /\ pc = "rerun" /\ pc' = "idle"
  /\ uploaded_file.kind \notin {"none", "audio_video"} /\ uploaded_file.ok
  /\ session_state'.transcribed_text = uploaded_file.text

\* A Word file, or a renamed one read as Word or as plain text, was stored.
WordTextStored ==
  \/ \E text \in WordTexts : UploadWordFile(TRUE, text)
  \/ \E word_ok \in BOOLEAN, decode_ok \in BOOLEAN, text \in WordTexts :
       (word_ok \/ decode_ok) /\ UploadRenamedWordFile(word_ok, decode_ok, text)

\* The clear button emptied the transcript and the minutes.
Cleared ==
  /\ ClearButtonShown(FALSE, session_state)
  /\ session_state'.transcribed_text = <<>>
  /\ session_state'.minutes = <<>>

OverridesDefault(custom_prompts) ==
  \E name \in DOMAIN custom_prompts :
    name \in DOMAIN get_default_prompt_templates

(***************************************************************************)
(* C18: the stored transcript persists until it is replaced or cleared,    *)
(* and the clear button, which empties the transcript and the minutes,     *)
(* can be reached whenever a transcript is stored.  C18_ClearReachable is  *)
(* the second half: with a transcript stored and no file in the uploader   *)
(* the page shows the clear button.  C18_TranscriptPersists is the first   *)
(* half: a step changes the transcript only when a text file, a Word       *)
(* file, a cue sheet, a pasted text or a transcription was stored or the   *)
(* transcript was cleared.                                                 *)
(***************************************************************************)
C18_ClearReachable ==
  (session_state.transcribed_text # <<>> /\ uploaded_file = NoFile) =>
    ClearButtonShown(FALSE, session_state)

C18_TranscriptPersists ==
  [][TranscriptChanges =>
       \/ UploadTextFile
       \/ TranscriptionStored
       \/ CueTextStored
       \/ FileTextStoredAgain
       \/ WordTextStored
       \/ Cleared]_vars

(***************************************************************************)
(* C19: after any sequence of add, edit, delete and import on the settings *)
(* page no key of custom_prompts is a default template name, and           *)
(* get_all_prompt_templates returns every default template with its own    *)
(* body.  C19_OnlyImportOverrides: every step other than an import keeps   *)
(* the custom names apart from the default ones.                           *)
(***************************************************************************)
C19_DefaultsNeverOverridden ==
  /\ ~OverridesDefault(session_state.custom_prompts)
  /\ \A name \in DOMAIN get_default_prompt_templates :
       get_all_prompt_templates(session_state.custom_prompts)[name] =
         get_default_prompt_templates[name]

C19_OnlyImportOverrides ==
  [][(/\ ~OverridesDefault(session_state.custom_prompts)
      /\ OverridesDefault(session_state'.custom_prompts))
       => \E imported_data \in ImportedData :
            /\ OverridesDefault(imported_data)
            /\ ImportPrompts(imported_data)]_vars

(***************************************************************************)
(* C20: when a transcribe_audio run has completed all its chunks without   *)
(* error, the stored transcript is the result of that run, whatever the    *)
(* result, the empty text included; so minutes generated after the run are *)
(* made from its result (C20_MinutesFromLatestRun).                        *)
(***************************************************************************)
C20_CompletedRunStored ==
  (Completed /\ pc = "idle") =>
    session_state.transcribed_text = result.text

C20_MinutesFromLatestRun ==
  [][(/\ Completed /\ pc = "idle"
      /\ session_state.api_key # <<>>
      /\ GenerateMinutes(TRUE, DefaultName))
       => session_state'.minutes \in
            generate_minutes_with_gemini(result.text, DefaultBody)]_vars

====
